---- MODULE Spec2Model ----
(***************************************************************************)
(* Model of app.py, the Simplified Law Summarizer: the summarization       *)
(* client (call_gemini_api), the markdown normalizer (clean_summary), the  *)
(* document renderer (generate_pdf) and the Streamlit script that wires    *)
(* them to the Generate Summary button.                                    *)
(*                                                                         *)
(* A Python str is a sequence of one-character strings.  Text produced by  *)
(* external libraries (exception messages) is carried as one opaque        *)
(* element that is neither '*', '-', whitespace nor a line break.          *)
(***************************************************************************)
EXTENDS Integers, Sequences, FiniteSets, TLC

VARIABLES
    manual_text,      \* the text area of the Manual Input tab
    uploaded_pdf,     \* the file uploader of the Upload PDF tab
    api_key,          \* the module-level credential
    button,           \* what st.button returned in the last script run
    response,         \* what the endpoint answered to the last run's request
    posted,           \* the requests.post calls of the last run, in order
    warned,           \* the last run showed st.warning
    trace,            \* the helper calls of the last run, in order
    summary,          \* the raw summary (the value call_gemini_api returned)
    cleaned_summary,  \* clean_summary(summary)
    recleaned,        \* clean_summary(cleaned_summary)
    pdf_file          \* generate_pdf(summary)

vars == <<manual_text, uploaded_pdf, api_key, button, response, posted, warned,
          trace, summary, cleaned_summary, recleaned, pdf_file>>

\* ------------------------------------------------------------------ bounds

\* longest summary text explored by the text pipeline
MaxLen == 5

\* ----------------------------------------------------------------- values

\* Python values: a tag and a sequence (the characters of a str, the items
\* of a list, the <<key, value>> pairs of a dict, the one number of an int)
Str(cs) == [t |-> "str", v |-> cs]

None == [t |-> "None", v |-> <<>>]

IntVal(n) == [t |-> "int", v |-> <<n>>]

List(items) == [t |-> "list", v |-> items]

Dict(pairs) == [t |-> "dict", v |-> pairs]

\* the document buffer generate_pdf returns, holding the story it was built from
Pdf(story) == [t |-> "pdf", v |-> story]

\* ------------------------------------------------------------- characters

\* the characters summaries are built from: the two bullet glyphs, blank,
\* the two line breaks, and a letter
Alphabet == <<"*", "-", " ", "\n", "\r", "a">>

\* Python's \s and str.strip() whitespace, restricted to Alphabet
IsSpace(c) == c \in {" ", "\n", "\r"}

\* line boundaries of str.splitlines(), restricted to Alphabet
IsLineBreak(c) == c \in {"\n", "\r"}

RECURSIVE StringsOfLen(_)
StringsOfLen(n) ==
    IF n = 0 THEN {<<>>}
    ELSE {Append(s, Alphabet[k]) : s \in StringsOfLen(n - 1), k \in 1..Len(Alphabet)}

Strings == UNION {StringsOfLen(n) : n \in 0..MaxLen}

\* ---------------------------------------------------------- clean_summary

\* the least of a non-empty set of positions
Least(S) == CHOOSE k \in S : \A j \in S : k <= j

\* the position of the `**` that closes a bold opened before j under the
\* lazy `(.*?)\*\*`: the first `**` at or after j, provided no "\n" comes
\* before it ('.' without DOTALL matches anything but "\n"); 0 when the
\* pattern cannot match
ClosingBold(s, j) ==
    LET stars == {p \in j..(Len(s) - 1) : s[p] = "*" /\ s[p + 1] = "*"}
    IN  IF stars = {} THEN 0
        ELSE IF \E k \in j..(Least(stars) - 1) : s[k] = "\n" THEN 0
        ELSE Least(stars)

\* re.sub(r'\*\*(.*?)\*\*', r'\1', s), scanning from position i: the
\* leftmost match is replaced by its group and the scan resumes after it
RECURSIVE SubBold(_, _)
SubBold(s, i) ==
    LET opens == {p \in i..(Len(s) - 1) :
                    s[p] = "*" /\ s[p + 1] = "*" /\ ClosingBold(s, p + 2) # 0}
    IN  IF opens = {} THEN SubSeq(s, i, Len(s))
        ELSE LET p == Least(opens)
                 j == ClosingBold(s, p + 2)
             IN  SubSeq(s, i, p - 1) \o SubSeq(s, p + 2, j - 1) \o SubBold(s, j + 2)

\* the end of the greedy `\s+` started at j: the first position at or
\* after j that holds no whitespace
SpaceRunEnd(s, j) ==
    Least({k \in j..(Len(s) + 1) : k = Len(s) + 1 \/ ~IsSpace(s[k])})

\* re.sub(r'^\*\s+', '', s, flags=re.MULTILINE), scanning from position i;
\* `^` holds at the start of the string and right after a "\n"
RECURSIVE SubBullet(_, _)
SubBullet(s, i) ==
    LET starts == {p \in i..(Len(s) - 1) :
                     /\ (p = 1 \/ s[p - 1] = "\n")
                     /\ s[p] = "*"
                     /\ IsSpace(s[p + 1])}
    IN  IF starts = {} THEN SubSeq(s, i, Len(s))
        ELSE SubSeq(s, i, Least(starts) - 1)
             \o SubBullet(s, SpaceRunEnd(s, Least(starts) + 1))

\* clean_summary with the second pattern widened to r'^[*-]\s+'
RECURSIVE SubAnyBullet(_, _)
SubAnyBullet(s, i) ==
    LET starts == {p \in i..(Len(s) - 1) :
                     /\ (p = 1 \/ s[p - 1] = "\n")
                     /\ s[p] \in {"*", "-"}
                     /\ IsSpace(s[p + 1])}
    IN  IF starts = {} THEN SubSeq(s, i, Len(s))
        ELSE SubSeq(s, i, Least(starts) - 1)
             \o SubAnyBullet(s, SpaceRunEnd(s, Least(starts) + 1))

clean_summary_any_bullet(s) == SubAnyBullet(SubBold(s, 1), 1)

clean_summary(s) == SubBullet(SubBold(s, 1), 1)

\* ----------------------------------------------------------- generate_pdf

Spacer(w, h) == [kind |-> "Spacer", width |-> w, height |-> h, items |-> <<>>]

Paragraph(text) == [kind |-> "Paragraph", width |-> 0, height |-> 0, items |-> <<text>>]

\* ListFlowable([ListItem(Paragraph(text)) ...], bulletType='bullet')
ListFlowable(texts) == [kind |-> "ListFlowable", width |-> 0, height |-> 0, items |-> texts]

\* str.splitlines() from position i on: "\n", "\r" and "\r\n" end a line,
\* and no empty line follows the last line break
RECURSIVE SplitFrom(_, _)
SplitFrom(s, i) ==
    LET breaks == {p \in i..Len(s) : IsLineBreak(s[p])}
    IN  IF i > Len(s) THEN <<>>
        ELSE IF breaks = {} THEN <<SubSeq(s, i, Len(s))>>
        ELSE LET p == Least(breaks)
             IN  <<SubSeq(s, i, p - 1)>>
                 \o SplitFrom(s, IF s[p] = "\r" /\ p + 1 <= Len(s) /\ s[p + 1] = "\n"
                                 THEN p + 2 ELSE p + 1)

splitlines(s) == SplitFrom(s, 1)

\* str.strip(): from the first to the last character that is no whitespace
strip(s) ==
    LET solid == {k \in 1..Len(s) : ~IsSpace(s[k])}
    IN  IF solid = {} THEN <<>>
        ELSE SubSeq(s, Least(solid), CHOOSE k \in solid : \A j \in solid : j <= k)

\* the loop body with `continue` reached before the spacer is appended
LineFlowablesNoBlankSpacer(l) ==
    LET line == strip(l)
    IN  IF line = <<>> THEN <<>>
        ELSE IF line[1] = "-" \/ line[1] = "*"
             THEN <<[kind |-> "ListFlowable", width |-> 0, height |-> 0,
                     items |-> <<strip(Tail(line))>>]>>
        ELSE <<[kind |-> "Paragraph", width |-> 0, height |-> 0, items |-> <<line>>],
               [kind |-> "Spacer", width |-> 1, height |-> 5, items |-> <<>>]>>

\* the loop body with line.lstrip("-*") in place of line[1:]
LineFlowablesLstripBullets(l) ==
    LET line == strip(l)
        rest == {k \in 1..Len(line) : line[k] # "-" /\ line[k] # "*"}
    IN  IF line = <<>>
        THEN <<[kind |-> "Spacer", width |-> 1, height |-> 5, items |-> <<>>]>>
        ELSE IF line[1] = "-" \/ line[1] = "*"
             THEN <<[kind |-> "ListFlowable", width |-> 0, height |-> 0,
                     items |-> <<IF rest = {} THEN <<>>
                                 ELSE strip(SubSeq(line, Least(rest), Len(line)))>>]>>
        ELSE <<[kind |-> "Paragraph", width |-> 0, height |-> 0, items |-> <<line>>],
               [kind |-> "Spacer", width |-> 1, height |-> 5, items |-> <<>>]>>

\* one pass of the loop body over a line of the cleaned summary: what it
\* appends to the story
LineFlowables(l) ==
    LET line == strip(l)
    IN  IF line = <<>> THEN <<Spacer(1, 5)>>
        ELSE IF line[1] = "-" \/ line[1] = "*"
             THEN <<ListFlowable(<<strip(Tail(line))>>)>>
        ELSE <<Paragraph(line), Spacer(1, 5)>>

\* the loop with story.insert(0, ...) in place of story.append(...)
RECURSIVE StoryPrepending(_)
StoryPrepending(lines) ==
    IF lines = <<>> THEN <<>>
    ELSE StoryPrepending(Tail(lines)) \o LineFlowables(Head(lines))

RECURSIVE Story(_)
Story(lines) ==
    IF lines = <<>> THEN <<>>
    ELSE LineFlowables(Head(lines)) \o Story(Tail(lines))

\* the story handed to doc.build, which lays it out in the returned buffer
generate_pdf(s) == Story(splitlines(clean_summary(s)))

\* ------------------------------------------------- extract_text_from_pdf

\* page.extract_text() or ""
OrEmpty(x) == IF x.t = "str" /\ x.v # <<>> THEN x.v ELSE <<>>

RECURSIVE ConcatPages(_)
ConcatPages(pages) ==
    IF pages = <<>> THEN <<>>
    ELSE OrEmpty(Head(pages)) \o ConcatPages(Tail(pages))

\* pdf.v: what extract_text() returns for each page of the upload
extract_text_from_pdf(pdf) == strip(ConcatPages(pdf.v))

\* -------------------------------------------------------- call_gemini_api

\* U+26A0 U+FE0F and U+274C are the warning sign and the cross mark
NoKeyWarning ==
    <<"U+26A0", "U+FE0F", " ", "A", "P", "I", " ", "k", "e", "y", " ", "n", "o", "t",
      " ", "f", "o", "u", "n", "d", ".", " ", "P", "l", "e", "a", "s", "e", " ", "s",
      "e", "t", " ", "G", "E", "M", "I", "N", "I", "_", "A", "P", "I", "_", "K", "E",
      "Y", " ", "i", "n", " ", "S", "t", "r", "e", "a", "m", "l", "i", "t", " ", "S",
      "e", "c", "r", "e", "t", "s", " ", "(", "d", "e", "p", "l", "o", "y", "m", "e",
      "n", "t", ")", " ", "o", "r", " ", "i", "n", " ", "a", " ", ".", "e", "n", "v",
      " ", "f", "i", "l", "e", " ", "(", "l", "o", "c", "a", "l", ")", ".">>

ApiErrorPrefix == <<"U+274C", " ", "A", "P", "I", " ", "E", "r", "r", "o", "r", " ">>

CallFailedPrefix ==
    <<"U+274C", " ", "A", "P", "I", " ", "c", "a", "l", "l", " ", "f", "a", "i", "l",
      "e", "d", ":", " ">>

Key_candidates == <<"c", "a", "n", "d", "i", "d", "a", "t", "e", "s">>

Key_content == <<"c", "o", "n", "t", "e", "n", "t">>

Key_parts == <<"p", "a", "r", "t", "s">>

Key_text == <<"t", "e", "x", "t">>

Digits == <<"0", "1", "2", "3", "4", "5", "6", "7", "8", "9">>

\* str(n) of a non-negative int, as an f-string formats it
RECURSIVE IntToStr(_)
IntToStr(n) ==
    IF n < 10 THEN <<Digits[n + 1]>>
    ELSE IntToStr(n \div 10) \o <<Digits[(n % 10) + 1]>>

\* the outcome of an expression: its value, or the str() of what it raised
Ok(val) == [ok |-> TRUE, val |-> val, exc |-> <<>>]

Raise(description) == [ok |-> FALSE, val |-> None, exc |-> description]

RECURSIVE Lookup(_, _, _)
Lookup(pairs, key, i) ==
    IF i > Len(pairs) THEN 0
    ELSE IF pairs[i][1] = key THEN i
    ELSE Lookup(pairs, key, i + 1)

\* obj[k] for a str or int k: dict lookup, list and str indexing, and the
\* KeyError, IndexError and TypeError of the rest
getitem(obj, k) ==
    CASE obj.t = "dict" ->
            IF k.t = "str" /\ Lookup(obj.v, k.v, 1) # 0
            THEN Ok(obj.v[Lookup(obj.v, k.v, 1)][2])
            ELSE IF k.t = "str" THEN Raise(<<"'">> \o k.v \o <<"'">>)
            ELSE Raise(IntToStr(k.v[1]))
      [] obj.t = "list" ->
            IF k.t # "int" THEN Raise(<<"list indices must be integers or slices, not str">>)
            ELSE IF k.v[1] + 1 <= Len(obj.v) THEN Ok(obj.v[k.v[1] + 1])
            ELSE Raise(<<"list index out of range">>)
      [] obj.t = "str" ->
            IF k.t # "int" THEN Raise(<<"string indices must be integers">>)
            ELSE IF k.v[1] + 1 <= Len(obj.v) THEN Ok(Str(<<obj.v[k.v[1] + 1]>>))
            ELSE Raise(<<"string index out of range">>)
      [] OTHER -> Raise(<<"object is not subscriptable">>)

\* r[k] where r may already have raised
Sub(r, k) == IF r.ok THEN getitem(r.val, k) ELSE r

\* out["candidates"][0]["content"]["parts"][0]["text"]
FirstCandidateText(out) ==
    Sub(Sub(Sub(Sub(Sub(Sub(out, Str(Key_candidates)), IntVal(0)), Str(Key_content)),
                Str(Key_parts)), IntVal(0)), Str(Key_text))

\* ----------------------------------------------------------- the endpoint

\* a JSON string literal's escapes
RECURSIVE Escape(_)
Escape(cs) ==
    IF cs = <<>> THEN <<>>
    ELSE (CASE Head(cs) = "\n" -> <<"\\", "n">>
            [] Head(cs) = "\r" -> <<"\\", "r">>
            [] Head(cs) = "\"" -> <<"\\", "\"">>
            [] Head(cs) = "\\" -> <<"\\", "\\">>
            [] OTHER -> <<Head(cs)>>) \o Escape(Tail(cs))

\* resp.text of a body that is the JSON document v
RECURSIVE Dumps(_), DumpItems(_, _), DumpPairs(_, _)
Dumps(v) ==
    CASE v.t = "str" -> <<"\"">> \o Escape(v.v) \o <<"\"">>
      [] v.t = "int" -> IntToStr(v.v[1])
      [] v.t = "list" -> <<"[">> \o DumpItems(v.v, 1) \o <<"]">>
      [] v.t = "dict" -> <<"{">> \o DumpPairs(v.v, 1) \o <<"}">>
      [] OTHER -> <<"n", "u", "l", "l">>

DumpItems(items, i) ==
    IF i > Len(items) THEN <<>>
    ELSE (IF i > 1 THEN <<",">> ELSE <<>>) \o Dumps(items[i]) \o DumpItems(items, i + 1)

DumpPairs(pairs, i) ==
    IF i > Len(pairs) THEN <<>>
    ELSE (IF i > 1 THEN <<",">> ELSE <<>>)
         \o <<"\"">> \o Escape(pairs[i][1]) \o <<"\"", ":">> \o Dumps(pairs[i][2])
         \o DumpPairs(pairs, i + 1)

\* a response body: resp.text, and what resp.json() gives for it
JsonBody(v) == [text |-> Dumps(v), json |-> Ok(v)]

NotJsonBody(text) ==
    [text |-> text, json |-> Raise(<<"Expecting value: line 1 column 1 (char 0)">>)]

\* {"candidates": [{"content": {"parts": [{"text": text}]}}]}
GenerateContentResponse(text) ==
    Dict(<< <<Key_candidates,
              List(<< Dict(<< <<Key_content,
                                Dict(<< <<Key_parts,
                                          List(<< Dict(<< <<Key_text, text>> >>) >>)>> >>)>> >>) >>)>> >>)

\* the texts the model generates
Summaries ==
    << <<"*", "*", "a", "*", "*", ":", " ", "b", "\n", "\n", "-", " ", "c", "\n", "*", " ", "d">>,
       <<"*", " ", "*", " ", "a">>,
       <<"a">>,
       <<>> >>

\* bodies of another shape than the one above
MalformedBodies ==
    << JsonBody(GenerateContentResponse(None)),
       JsonBody(GenerateContentResponse(IntVal(7))),
       JsonBody(Dict(<<>>)),
       JsonBody(Dict(<< <<Key_candidates, List(<<>>)>> >>)),
       JsonBody(Dict(<< <<Key_candidates, Str(<<"a", "b">>)>> >>)),
       JsonBody(List(<<>>)),
       JsonBody(None),
       NotJsonBody(<<"<", "h", "1", ">", "B", "a", "d", "<", "/", "h", "1", ">">>) >>

BodyCount == Len(Summaries) + Len(MalformedBodies)

Body(i) ==
    IF i <= Len(Summaries) THEN JsonBody(GenerateContentResponse(Str(Summaries[i])))
    ELSE MalformedBodies[i - Len(Summaries)]

StatusCodes == {200, 404, 500}

\* how the endpoint answers a request: requests.post raises (raised is the
\* str() of the exception), or returns a response
NoResponse == [raised |-> <<>>, status_code |-> 0, body |-> 0]

Nets ==
    {[raised |-> <<e>>, status_code |-> 0, body |-> 0] :
        e \in {"Read timed out. (read timeout=60)", "Max retries exceeded with url"}}
    \cup {[raised |-> <<>>, status_code |-> s, body |-> b] :
            s \in StatusCodes, b \in 1..BodyCount}

\* `not api_key`: None and "" are falsy
HasKey == api_key.t = "str" /\ api_key.v # <<>>

\* the request requests.post sends: the key in the URL, the prompt after
\* the fixed instructions, the timeout
Request(prompt) == [key |-> api_key.v, legal_text |-> prompt, timeout |-> 60]

\* call_gemini_api with the request sent again after a failure
call_gemini_api_retrying(prompt, net) ==
    IF ~HasKey THEN [ret |-> Str(NoKeyWarning), posted |-> <<>>]
    ELSE IF net.raised # <<>>
         THEN [ret |-> Str(CallFailedPrefix \o net.raised),
               posted |-> <<Request(prompt), Request(prompt)>>]
    ELSE IF net.status_code = 200
         THEN LET text == FirstCandidateText(Body(net.body).json)
              IN  IF text.ok
                  THEN [ret |-> text.val, posted |-> <<Request(prompt)>>]
                  ELSE [ret |-> Str(CallFailedPrefix \o text.exc),
                        posted |-> <<Request(prompt), Request(prompt)>>]
    ELSE [ret |-> Str(ApiErrorPrefix \o IntToStr(net.status_code) \o <<":", " ">>
                      \o Body(net.body).text),
          posted |-> <<Request(prompt), Request(prompt)>>]

\* net: how the endpoint answers.  ret is the value returned, posted the
\* requests.post calls made
call_gemini_api(prompt, net) ==
    IF ~HasKey THEN [ret |-> Str(NoKeyWarning), posted |-> <<>>]
    ELSE IF net.raised # <<>>
         THEN [ret |-> Str(CallFailedPrefix \o net.raised), posted |-> <<Request(prompt)>>]
    ELSE IF net.status_code = 200
         THEN LET text == FirstCandidateText(Body(net.body).json)
              IN  IF text.ok
                  THEN [ret |-> text.val, posted |-> <<Request(prompt)>>]
                  ELSE [ret |-> Str(CallFailedPrefix \o text.exc),
                        posted |-> <<Request(prompt)>>]
    ELSE [ret |-> Str(ApiErrorPrefix \o IntToStr(net.status_code) \o <<":", " ">> \o Body(net.body).text),
          posted |-> <<Request(prompt)>>]

\* ------------------------------------------------------------- the script

ManualTexts == {<<>>, <<" ">>, <<"a">>, <<" ", "a", "\n">>}

\* uploads, by what extract_text() returns for each page
Uploads ==
    << [t |-> "upload", v |-> <<>>],
       [t |-> "upload", v |-> <<None>>],
       [t |-> "upload", v |-> <<Str(<<" ">>), Str(<<"\n">>)>>],
       [t |-> "upload", v |-> <<Str(<<" ", "b">>), None, Str(<<"c", " ">>)>>] >>

pdf_text(u) == IF u.t = "upload" THEN extract_text_from_pdf(u) ELSE <<>>

input_text(m, u) == IF strip(m) # <<>> THEN m ELSE pdf_text(u)

Call(fn, arg, raised) == [fn |-> fn, arg |-> arg, raised |-> raised]

\* one run of the script with the widgets at m and u, st.button giving b,
\* and the endpoint answering net
ScriptRun(m, u, b, net) ==
    /\ manual_text' = m
    /\ uploaded_pdf' = u
    /\ button' = b
    /\ UNCHANGED <<api_key, recleaned>>
    /\ IF ~b \/ strip(input_text(m, u)) = <<>>
       THEN /\ warned' = b
            /\ response' = NoResponse
            /\ posted' = <<>>
            /\ trace' = <<>>
            /\ summary' = None
            /\ cleaned_summary' = None
            /\ pdf_file' = None
       ELSE LET r == call_gemini_api(input_text(m, u), net)
                called == Call("call_gemini_api", Str(input_text(m, u)), FALSE)
            IN  /\ warned' = FALSE
                /\ response' = IF r.posted = <<>> THEN NoResponse ELSE net
                /\ posted' = r.posted
                /\ summary' = r.ret
                /\ IF r.ret.t = "str"
                   THEN /\ cleaned_summary' = Str(clean_summary(r.ret.v))
                        /\ pdf_file' = Pdf(generate_pdf(r.ret.v))
                        /\ trace' = <<called,
                                      Call("clean_summary", r.ret, FALSE),
                                      Call("generate_pdf", r.ret, FALSE)>>
                   ELSE \* re.sub raises TypeError and the run ends there
                        /\ cleaned_summary' = None
                        /\ pdf_file' = None
                        /\ trace' = <<called, Call("clean_summary", r.ret, TRUE)>>

Init ==
    /\ manual_text = <<>>
    /\ uploaded_pdf = None
    /\ api_key \in {None, Str(<<>>), Str(<<"k">>)}
    /\ button = FALSE
    /\ response = NoResponse
    /\ posted = <<>>
    /\ warned = FALSE
    /\ trace = <<>>
    /\ summary = None
    /\ cleaned_summary = None
    /\ recleaned = None
    /\ pdf_file = None

EditManualText ==
    \E m \in ManualTexts :
        /\ m # manual_text
        /\ ScriptRun(m, uploaded_pdf, FALSE, NoResponse)

UploadPdf ==
    \E f \in 1..Len(Uploads) :
        /\ button' = FALSE
        /\ ScriptRun(manual_text, Uploads[f], FALSE, NoResponse)

RemovePdf ==
    /\ uploaded_pdf.t = "upload"
    /\ ScriptRun(manual_text, None, FALSE, NoResponse)

GenerateSummary ==
    \E net \in Nets :
        /\ button' = TRUE
        /\ ScriptRun(manual_text, uploaded_pdf, TRUE, net)

Next == EditManualText \/ UploadPdf \/ RemovePdf \/ GenerateSummary

Spec == Init /\ [][Next]_vars

\* ------------------------------------------------------ the text pipeline

\* clean_summary and generate_pdf applied to every summary up to MaxLen
PipelineInit ==
    /\ manual_text = <<>>
    /\ uploaded_pdf = None
    /\ api_key = None
    /\ button = FALSE
    /\ response = NoResponse
    /\ posted = <<>>
    /\ warned = FALSE
    /\ trace = <<>>
    /\ summary \in {Str(s) : s \in Strings}
    /\ cleaned_summary = None
    /\ recleaned = None
    /\ pdf_file = None

CleanSummary ==
    /\ cleaned_summary.t = "None"
    /\ cleaned_summary' = Str(clean_summary(summary.v))
    /\ UNCHANGED <<manual_text, uploaded_pdf, api_key, button, response, posted,
                   warned, trace, summary, recleaned, pdf_file>>

CleanAgain ==
    /\ cleaned_summary.t = "str"
    /\ recleaned.t = "None"
    /\ recleaned' = Str(clean_summary(cleaned_summary.v))
    /\ UNCHANGED <<manual_text, uploaded_pdf, api_key, button, response, posted,
                   warned, trace, summary, cleaned_summary, pdf_file>>

GeneratePdf ==
    /\ pdf_file.t = "None"
    /\ pdf_file' = Pdf(generate_pdf(summary.v))
    /\ UNCHANGED <<manual_text, uploaded_pdf, api_key, button, response, posted,
                   warned, trace, summary, cleaned_summary, recleaned>>

PipelineNext == CleanSummary \/ CleanAgain \/ GeneratePdf

PipelineSpec == PipelineInit /\ [][PipelineNext]_vars

\* ================================================================ claims

HasDoubleStar(s) == \E p \in 1..(Len(s) - 1) : s[p] = "*" /\ s[p + 1] = "*"

\* two `**` markers that do not overlap
HasPairedBold(s) ==
    \E p, q \in 1..(Len(s) - 1) :
        /\ p + 2 <= q
        /\ s[p] = "*" /\ s[p + 1] = "*"
        /\ s[q] = "*" /\ s[q + 1] = "*"

NoStar(s) == \A k \in 1..Len(s) : s[k] # "*"

IsBlankLine(l) == strip(l) = <<>>

IsBulletLine(l) == strip(l) # <<>> /\ strip(l)[1] \in {"-", "*"}

IsBodyLine(l) == strip(l) # <<>> /\ strip(l)[1] \notin {"-", "*"}

NotBlankLine(l) == ~IsBlankLine(l)

IsSpacer(e) == e.kind = "Spacer"

NotSpacer(e) == e.kind # "Spacer"

IsListFlowable(e) == e.kind = "ListFlowable"

IsParagraph(e) == e.kind = "Paragraph"

IsSuffix(a, b) == Len(a) <= Len(b) /\ a = SubSeq(b, Len(b) - Len(a) + 1, Len(b))

IsPrefix(a, b) == Len(a) <= Len(b) /\ a = SubSeq(b, 1, Len(a))

\* the lines of the normalized text of the rendered summary
NormalizedLines == splitlines(clean_summary(summary.v))

\* maximal runs of consecutive blank lines
BlankRuns(L) ==
    Cardinality({i \in 1..Len(L) : IsBlankLine(L[i]) /\ (i = 1 \/ ~IsBlankLine(L[i - 1]))})

\* C1: clean_summary is idempotent: cleaning the cleaned summary again
\* changes nothing, for every input.
C1_Idempotent == recleaned.t = "str" => recleaned.v = cleaned_summary.v

\* C2: whenever the summary holds paired `**` markers, the cleaned summary
\* holds no `**` at all.
C2_NoBoldMarkerLeft ==
    (cleaned_summary.t = "str" /\ HasPairedBold(summary.v))
        => ~HasDoubleStar(cleaned_summary.v)

\* C3: no line of the cleaned summary (from the text start, or from what
\* follows a "\n") begins with a `*` followed by whitespace of that line.
C3_NoBulletGlyphLeft ==
    cleaned_summary.t = "str" =>
        \A p \in 1..(Len(cleaned_summary.v) - 1) :
            ((p = 1 \/ cleaned_summary.v[p - 1] = "\n") /\ cleaned_summary.v[p] = "*")
                => \/ ~IsSpace(cleaned_summary.v[p + 1])
                   \/ IsLineBreak(cleaned_summary.v[p + 1])

\* C6 as stated: the story holds exactly one flow element per line of the
\* input, in order, a blank line's being the fixed spacer and a non-blank
\* line's being a paragraph or list.
C6_OneElementPerInputLine ==
    pdf_file.t = "pdf" =>
        LET L == splitlines(summary.v)
        IN  /\ Len(pdf_file.v) = Len(L)
            /\ \A i \in 1..Len(L) :
                 IF IsBlankLine(L[i]) THEN pdf_file.v[i] = Spacer(1, 5)
                 ELSE NotSpacer(pdf_file.v[i])

\* C6 amended: the paragraphs and lists of the story are, in order, one per
\* non-blank line of the normalized text, each holding the end of its
\* trimmed line; the rest of the story is one spacer per blank line and one
\* after each paragraph.
C6_OneFlowablePerNormalizedLine ==
    pdf_file.t = "pdf" =>
        LET L == NormalizedLines
            NB == SelectSeq(L, NotBlankLine)
            E == SelectSeq(pdf_file.v, NotSpacer)
        IN  /\ Len(E) = Len(NB)
            /\ \A i \in 1..Len(E) :
                 /\ E[i].kind \in {"Paragraph", "ListFlowable"}
                 /\ Len(E[i].items) = 1
                 /\ IsSuffix(E[i].items[1], strip(NB[i]))
                 /\ IsParagraph(E[i]) <=> IsBodyLine(NB[i])
            /\ Len(pdf_file.v) = Len(L) + Len(SelectSeq(L, IsBodyLine))

\* a rendered summary with a body line, a blank line and a bullet line
C6_Witness ==
    /\ pdf_file.t = "pdf"
    /\ \E i, j, k \in 1..Len(NormalizedLines) :
         /\ i < j /\ j < k
         /\ IsBodyLine(NormalizedLines[i])
         /\ IsBlankLine(NormalizedLines[j])
         /\ IsBulletLine(NormalizedLines[k])
    /\ Len(pdf_file.v) = 4

\* C7: the list flowables of the story are, in order, one single-item list
\* per bullet line of the normalized text, holding the trimmed line less
\* its first character, trimmed again; every other non-empty line is a
\* paragraph of the trimmed line, followed by the spacer.
C7_OneListPerBulletLine ==
    pdf_file.t = "pdf" =>
        LET L == NormalizedLines
            B == SelectSeq(L, IsBulletLine)
            F == SelectSeq(pdf_file.v, IsListFlowable)
            O == SelectSeq(L, IsBodyLine)
            P == SelectSeq(pdf_file.v, IsParagraph)
        IN  /\ Len(F) = Len(B)
            /\ \A i \in 1..Len(F) :
                 LET line == strip(B[i])
                 IN  F[i] = ListFlowable(<<strip(SubSeq(line, 2, Len(line)))>>)
            /\ Len(P) = Len(O)
            /\ \A i \in 1..Len(P) : P[i] = Paragraph(strip(O[i]))
            /\ \A k \in 1..Len(pdf_file.v) :
                 IsParagraph(pdf_file.v[k])
                     => k < Len(pdf_file.v) /\ pdf_file.v[k + 1] = Spacer(1, 5)

\* a rendered summary with two bullet lines in a row, the first with a
\* second bullet glyph after its first
C7_Witness ==
    /\ pdf_file.t = "pdf"
    /\ \E i \in 1..(Len(NormalizedLines) - 1) :
         /\ IsBulletLine(NormalizedLines[i])
         /\ IsBulletLine(NormalizedLines[i + 1])
    /\ \E k \in 1..(Len(pdf_file.v) - 1) :
         /\ IsListFlowable(pdf_file.v[k])
         /\ IsListFlowable(pdf_file.v[k + 1])
    /\ \E k \in 1..Len(pdf_file.v) :
         /\ IsListFlowable(pdf_file.v[k])
         /\ pdf_file.v[k].items[1] # <<>>
         /\ pdf_file.v[k].items[1][1] \in {"-", "*"}

\* C8: a summary with no `*` in it is returned by clean_summary unchanged,
\* its `-` bullet lines included.
C8_NoStarUnchanged ==
    (cleaned_summary.t = "str" /\ NoStar(summary.v))
        => cleaned_summary.v = summary.v

\* a cleaned summary with no `*` whose first line is a `-` bullet with text
C8_Witness ==
    /\ cleaned_summary.t = "str"
    /\ NoStar(summary.v)
    /\ Len(summary.v) >= 3
    /\ summary.v[1] = "-"
    /\ summary.v[2] = " "
    /\ summary.v[3] = "a"
    /\ \E k \in 2..Len(summary.v) : summary.v[k - 1] = "\n" /\ summary.v[k] = "-"

\* C9 as stated: a run of blank lines yields one spacer, so the spacers of
\* the story are one per run of blank lines and one after each paragraph.
C9_OneSpacerPerBlankRun ==
    pdf_file.t = "pdf" =>
        Len(SelectSeq(pdf_file.v, IsSpacer))
            = BlankRuns(NormalizedLines) + Len(SelectSeq(NormalizedLines, IsBodyLine))

\* C9 amended: every blank line of the normalized text yields its own fixed
\* spacer, so the spacers of the story are one per blank line and one after
\* each paragraph, all of the same size, and a text of k blank lines
\* renders as k spacers.
C9_OneSpacerPerBlankLine ==
    pdf_file.t = "pdf" =>
        LET L == NormalizedLines
            S == SelectSeq(pdf_file.v, IsSpacer)
        IN  /\ Len(S) = Len(SelectSeq(L, IsBlankLine)) + Len(SelectSeq(L, IsBodyLine))
            /\ \A i \in 1..Len(S) : S[i] = Spacer(1, 5)
            /\ (\A i \in 1..Len(L) : IsBlankLine(L[i])) => Len(pdf_file.v) = Len(L)

\* a rendered summary with a run of three blank lines after a body line
C9_Witness ==
    /\ pdf_file.t = "pdf"
    /\ \E i \in 2..(Len(NormalizedLines) - 2) :
         /\ IsBodyLine(NormalizedLines[i - 1])
         /\ IsBlankLine(NormalizedLines[i])
         /\ IsBlankLine(NormalizedLines[i + 1])
         /\ IsBlankLine(NormalizedLines[i + 2])
    /\ Len(SelectSeq(pdf_file.v, IsSpacer)) = 4

\* the last run called call_gemini_api
Summarized == trace # <<>> /\ trace[1].fn = "call_gemini_api"

\* C4: call_gemini_api returns a str in every case: the warning without a
\* key, the first candidate's text for a 200 of the documented shape, the
\* status and body for another status, the failure's description for an
\* exception of requests.post and for a 200 of any other shape.
C4_AlwaysReturnsString ==
    Summarized =>
        /\ summary.t = "str"
        /\ ~HasKey => summary.v = NoKeyWarning
        /\ (HasKey /\ response.raised # <<>>)
               => summary.v = CallFailedPrefix \o response.raised
        /\ (HasKey /\ response.status_code = 200 /\ response.body <= Len(Summaries))
               => summary.v = Summaries[response.body]
        /\ (HasKey /\ response.status_code = 200 /\ response.body > Len(Summaries))
               => /\ IsPrefix(CallFailedPrefix, summary.v)
                  /\ Len(summary.v) > Len(CallFailedPrefix)
        /\ (HasKey /\ response.status_code \notin {0, 200})
               => summary.v = ApiErrorPrefix \o IntToStr(response.status_code)
                                  \o <<":", " ">> \o Body(response.body).text

\* C5: a run posts at most one request; a summarization with a key posts
\* exactly one, carrying the input text, whatever the endpoint answers, and
\* one without a key posts none and returns the warning.
C5_OnePostPerCall ==
    /\ Len(posted) <= 1
    /\ (Summarized /\ HasKey)
           => /\ Len(posted) = 1
              /\ posted[1].legal_text = trace[1].arg.v
    /\ (Summarized /\ ~HasKey)
           => /\ posted = <<>>
              /\ summary = Str(NoKeyWarning)
    /\ ~Summarized => posted = <<>>

\* a summarization the endpoint answered with status 500, posted once
C5_Witness ==
    /\ Summarized
    /\ HasKey
    /\ response.status_code = 500
    /\ summary.t = "str"
    /\ IsPrefix(ApiErrorPrefix, summary.v)
    /\ Len(posted) = 1

\* C10: a Generate click on a blank effective input warns and calls no
\* helper; any other click calls call_gemini_api on the (non-blank) input
\* and hands the value it returned to both clean_summary and generate_pdf.
C10_GenerateFlow ==
    button =>
        IF strip(input_text(manual_text, uploaded_pdf)) = <<>>
        THEN warned /\ trace = <<>> /\ posted = <<>>
        ELSE /\ ~warned
             /\ Summarized
             /\ trace[1].arg = Str(input_text(manual_text, uploaded_pdf))
             /\ \A i \in 1..Len(trace) :
                    trace[i].fn = "call_gemini_api" => strip(trace[i].arg.v) # <<>>
             /\ \E i \in 1..Len(trace) :
                    trace[i] = Call("clean_summary", summary, FALSE)
             /\ \E i \in 1..Len(trace) :
                    trace[i] = Call("generate_pdf", summary, FALSE)

====
